---- MODULE Spec2Model ----
(***************************************************************************)
(* Model of the candidate matching engine of cover-crew-matcher:           *)
(*   supabase/functions/match-substitutes/index.ts  (the edge function)    *)
(*   src/pages/RequestDetails.tsx                   (the request page)     *)
(*   the schema embedded in src/pages/Branches.tsx  (tables, defaults)     *)
(*                                                                         *)
(* Every `await` of the sources is one action: the awaited store call      *)
(* takes effect and the code that follows it runs up to the next await.    *)
(* The store offers no transaction across calls (each PostgREST call is a  *)
(* statement of its own), so actions of different runs interleave freely.  *)
(*                                                                         *)
(* JavaScript numbers are modelled as exact rationals [n, d] in lowest     *)
(* terms with d >= 0; d = 0 encodes the IEEE specials: 0/0 is NaN, 1/0 is  *)
(* +Infinity and -1/0 is -Infinity.  `undefined` used as a number is NaN.  *)
(***************************************************************************)
EXTENDS Integers, Sequences, FiniteSets, TLC

----------------------------------------------------------------------------
(* Numbers *)

Abs(x) == IF x < 0 THEN 0 - x ELSE x

Sign(x) == IF x < 0 THEN 0 - 1 ELSE IF x > 0 THEN 1 ELSE 0

RECURSIVE GCD(_, _)
GCD(a, b) == IF b = 0 THEN a ELSE GCD(b, a % b)

Rat(n, d) ==
  IF d = 0 THEN [n |-> Sign(n), d |-> 0]
  ELSE LET g == GCD(Abs(n), Abs(d))
           s == IF d < 0 THEN 0 - 1 ELSE 1
       IN [n |-> s * (n \div g), d |-> s * (d \div g)]

RInt(i) == [n |-> i, d |-> 1]

NaN == [n |-> 0, d |-> 0]

IsNaN(x) == x.d = 0 /\ x.n = 0

IsFinite(x) == x.d # 0

RNeg(x) == [n |-> 0 - x.n, d |-> x.d]

RAdd(x, y) ==
  IF IsNaN(x) \/ IsNaN(y) THEN NaN
  ELSE IF x.d = 0 THEN (IF y.d = 0 /\ y.n # x.n THEN NaN ELSE x)
  ELSE IF y.d = 0 THEN y
  ELSE LET g == GCD(x.d, y.d)
           l == (x.d \div g) * y.d
       IN Rat(x.n * (l \div x.d) + y.n * (l \div y.d), l)

RSub(x, y) == RAdd(x, RNeg(y))

RMul(x, y) ==
  IF IsNaN(x) \/ IsNaN(y) THEN NaN
  ELSE IF x.d = 0 \/ y.d = 0
       THEN (IF x.n = 0 \/ y.n = 0 THEN NaN ELSE [n |-> Sign(x.n) * Sign(y.n), d |-> 0])
  ELSE LET g1 == GCD(Abs(x.n), y.d)
           g2 == GCD(Abs(y.n), x.d)
       IN [n |-> (x.n \div g1) * (y.n \div g2), d |-> (x.d \div g2) * (y.d \div g1)]

\* 1 / x; the sign of a zero is not modelled, 1 / 0 is +Infinity
RInv(x) ==
  IF IsNaN(x) THEN NaN
  ELSE IF x.d = 0 THEN RInt(0)
  ELSE IF x.n = 0 THEN [n |-> 1, d |-> 0]
  ELSE IF x.n < 0 THEN [n |-> 0 - x.d, d |-> 0 - x.n]
  ELSE [n |-> x.d, d |-> x.n]

RDiv(x, y) == RMul(x, RInv(y))

\* x < y as JavaScript compares numbers: false when either is NaN
RLt(x, y) ==
  IF IsNaN(x) \/ IsNaN(y) THEN FALSE
  ELSE IF x.d = 0 \/ y.d = 0
       THEN (IF x.d = 0 /\ y.d = 0 THEN x.n < y.n
             ELSE IF x.d = 0 THEN x.n < 0 ELSE y.n > 0)
  ELSE RSub(x, y).n < 0

\* x >= y, a comparison that is not strict
RGe(x, y) == RLt(y, x) \/ (~IsNaN(x) /\ x = y)

RGt(x, y) == RLt(y, x)

RLe(x, y) == RLt(x, y) \/ (~IsNaN(x) /\ x = y)

\* Math.max(x, y) and Math.min(x, y): NaN when either argument is NaN
MathMax(x, y) == IF IsNaN(x) \/ IsNaN(y) THEN NaN ELSE IF RLt(x, y) THEN y ELSE x

MathMin(x, y) == IF IsNaN(x) \/ IsNaN(y) THEN NaN ELSE IF RLt(y, x) THEN y ELSE x

\* x rounded to k decimals, half away from zero (toFixed, NUMERIC(p, k)); tenPow = 10^k
RoundTo(x, tenPow) ==
  IF ~IsFinite(x) THEN x
  ELSE LET whole == Abs(x.n) \div x.d
           rest == Abs(x.n) % x.d
           q == whole * tenPow + (2 * rest * tenPow + x.d) \div (2 * x.d)
       IN Rat(Sign(x.n) * q, tenPow)

----------------------------------------------------------------------------
(* Bounds of the model *)

\* times the clock advances, over one behaviour
MaxTicks == 1

\* assignments the page creates, over one behaviour
MaxAssignments == 1

\* invocations of the match function, over one behaviour
MaxRuns == 2

\* store calls that fail, over one behaviour
MaxFaults == 2

\* active substitutes, the first MaxPool or fewer of SubstituteProfiles
MaxPool == 2

\* assignments of one substitute inside the 30-day window, at Init
MaxRecent == 5

----------------------------------------------------------------------------
(* Program constants *)

\* candidates.slice(0, 5)
TopN == 5

\* 24 * 7 hours, the span of the speed scale, in seconds
WeekSeconds == 604800

\* setDate(getDate() - 30): 30 days, in seconds
WindowSeconds == 2592000

\* R * PI / 180 with R = 6371, in whole kilometres per degree of arc
KmPerDegree == 111

\* what the clock advances by in one step, in seconds: a moment, or 42 hours
TickSteps == {1, 151200}

----------------------------------------------------------------------------
(* Configuration: the settings table *)

SettingKeys == {"logistics_rules", "scoring_weights", "scoring_weights_fast", "scoring_weights_near"}

Weights(s, l, w) == [speed |-> Rat(s, 100), logistics |-> Rat(l, 100), load |-> Rat(w, 100)]

FallbackDefaultWeights == Weights(40, 35, 25)

\* a fast scenario that falls back to the weights of the default scenario
FastWeightsAsDefault == Weights(40, 35, 25)

FallbackFastWeights == Weights(50, 35, 15)

FallbackNearWeights == Weights(25, 60, 15)

\* `|| {}`: the fallback of logistics_rules has no key at all
FallbackLogisticsRules == [k \in {} |-> NaN]

SeedLogisticsRules ==
  [air_threshold_km |-> RInt(1500), rail_threshold_km |-> RInt(200),
   air_speed_kmh |-> RInt(700), rail_speed_kmh |-> RInt(80), car_speed_kmh |-> RInt(60),
   air_base_cost |-> RInt(5000), rail_base_cost |-> RInt(1500), car_base_cost |-> RInt(500),
   air_cost_per_km |-> RInt(3), rail_cost_per_km |-> RInt(1), car_cost_per_km |-> Rat(1, 2)]

\* the rows the schema migration inserts
SeedSettings ==
  [k \in SettingKeys |->
     CASE k = "logistics_rules" -> SeedLogisticsRules
       [] k = "scoring_weights" -> Weights(40, 35, 25)
       [] k = "scoring_weights_fast" -> Weights(50, 35, 15)
       [] k = "scoring_weights_near" -> Weights(25, 60, 15)]

Restrict(f, S) == [k \in S |-> f[k]]

\* settings rows an admin has rewritten ("Settings editable by admin"): weights
\* other than the seeded ones; the fast scenario then scores on speed alone
EditedSettings ==
  [SeedSettings EXCEPT !["scoring_weights"] = Weights(60, 20, 20),
                       !["scoring_weights_fast"] = Weights(100, 0, 0),
                       !["scoring_weights_near"] = Weights(10, 80, 10)]

\* logistics_rules an admin has rewritten: thresholds that distances of the
\* model meet exactly
EdgeLogisticsRules ==
  [SeedLogisticsRules EXCEPT !.rail_threshold_km = RInt(KmPerDegree),
                             !.air_threshold_km = RInt(3 * KmPerDegree)]

\* logistics_rules with negative cost constants
NegativeLogisticsRules ==
  [SeedLogisticsRules EXCEPT !.car_base_cost = RInt(0 - 1000),
                             !.rail_cost_per_km = RInt(0 - 1)]

\* logistics_rules with zero constants for the car
ZeroLogisticsRules ==
  [SeedLogisticsRules EXCEPT !.car_speed_kmh = RInt(0),
                             !.car_base_cost = RInt(0),
                             !.car_cost_per_km = RInt(0)]

\* settings?.find(s => s.key === key)?.value_json || fallback
SettingOr(data, key, fallback) == IF key \in DOMAIN data THEN data[key] ELSE fallback

\* obj.key read as a number: undefined (an absent key) is NaN
Field(obj, key) == IF key \in DOMAIN obj THEN obj[key] ELSE NaN

----------------------------------------------------------------------------
(* GeoDistance and LogisticsEstimator *)

\* "POINT(lon lat)" matched by /POINT\(([^ ]+) ([^ ]+)\)/, else [0, 0]
ParseCoords(c) == IF c.ok THEN <<c.lon, c.lat>> ELSE <<0, 0>>

\* The haversine formula on the arcs the model draws its points from: two
\* points of one meridian, or two points of the equator less than 180
\* degrees apart, where c = |delta| * PI / 180 and the result is R * c.
\* a distance that keeps the sign of the difference
haversineSigned(lat1, lon1, lat2, lon2) ==
  IF lon1 = lon2 THEN RInt(KmPerDegree * (lat2 - lat1))
  ELSE RInt(KmPerDegree * (lon2 - lon1))

haversineDistance(lat1, lon1, lat2, lon2) ==
  IF lon1 = lon2 THEN RInt(KmPerDegree * Abs(lat2 - lat1))
  ELSE RInt(KmPerDegree * Abs(lon2 - lon1))

calculateLogistics(fromCoords, toCoords, rules) ==
  LET distance == haversineDistance(fromCoords[2], fromCoords[1], toCoords[2], toCoords[1])
      mode == IF RGt(distance, Field(rules, "air_threshold_km")) THEN "air"
              ELSE IF RGt(distance, Field(rules, "rail_threshold_km")) THEN "rail"
              ELSE "car"
      speed_kmh == Field(rules, mode \o "_speed_kmh")
      base_cost == Field(rules, mode \o "_base_cost")
      cost_per_km == Field(rules, mode \o "_cost_per_km")
  IN [mode |-> mode,
      eta_hours |-> RDiv(distance, speed_kmh),
      cost_est |-> RAdd(base_cost, RMul(distance, cost_per_km)),
      distance_km |-> distance]

----------------------------------------------------------------------------
(* ScoreCalculator *)

\* Math.max(0, Math.min(100, (hoursUntilStart / (24 * 7)) * 100)); times in seconds
SpeedScore(mustStartBy, nowTime) ==
  MathMax(RInt(0), MathMin(RInt(100), RMul(Rat(mustStartBy - nowTime, WeekSeconds), RInt(100))))

\* Math.max(0, 100 - (eta_hours / 24) * 50 - (cost_est / 10000) * 50)
LogisticsScore(logistics) ==
  MathMax(RInt(0),
          RSub(RSub(RInt(100), RMul(RDiv(logistics.eta_hours, RInt(24)), RInt(50))),
               RMul(RDiv(logistics.cost_est, RInt(10000)), RInt(50))))

\* Math.max(0, 100 - (recentAssignments || 0) * 25)
LoadScore(recent) == MathMax(RInt(0), RSub(RInt(100), RMul(RInt(recent), RInt(25))))

\* a final score that leaves the logistics score out
FinalScoreNoLogistics(speedScore, logisticsScore, loadScore, weights) ==
  RAdd(RMul(speedScore, Field(weights, "speed")), RMul(loadScore, Field(weights, "load")))

FinalScore(speedScore, logisticsScore, loadScore, weights) ==
  RAdd(RAdd(RMul(speedScore, Field(weights, "speed")),
            RMul(logisticsScore, Field(weights, "logistics"))),
       RMul(loadScore, Field(weights, "load")))

----------------------------------------------------------------------------
(* ScenarioRanker *)

\* scenarios, from the settings rows a run has read
Scenarios(data) ==
  << [type |-> "default", weights |-> SettingOr(data, "scoring_weights", FallbackDefaultWeights)],
     [type |-> "fast", weights |-> SettingOr(data, "scoring_weights_fast", FallbackFastWeights)],
     [type |-> "near", weights |-> SettingOr(data, "scoring_weights_near", FallbackNearWeights)] >>

ScenarioTypes == {"default", "fast", "near"}

\* a comparator that sorts ascending
SortsBeforeAscending(b, a) == RLt(RSub(b.score, a.score), RInt(0))

\* the comparator (a, b) => b.score - a.score is positive: b sorts before a
SortsBefore(b, a) == RGt(RSub(b.score, a.score), RInt(0))

\* x put into a list that is already sorted, behind every element it does not beat
RECURSIVE InsertSorted(_, _)
InsertSorted(x, sorted) ==
  IF sorted = <<>> THEN <<x>>
  ELSE IF SortsBefore(x, Head(sorted)) THEN <<x>> \o sorted
  ELSE <<Head(sorted)>> \o InsertSorted(x, Tail(sorted))

\* candidates.sort(comparator): Array.prototype.sort is stable
RECURSIVE SortCandidates(_)
SortCandidates(cs) ==
  IF cs = <<>> THEN <<>>
  ELSE InsertSorted(cs[Len(cs)], SortCandidates(SubSeq(cs, 1, Len(cs) - 1)))

Min(a, b) == IF a < b THEN a ELSE b

\* a slice that keeps every candidate
SliceNone(cs) == cs

\* candidates.slice(0, 5)
Slice(cs) == SubSeq(cs, 1, Min(TopN, Len(cs)))

\* toFixed(1) of the three sub-scores, the numbers of the explanation string
Explanation(speedScore, logisticsScore, loadScore) ==
  <<RoundTo(speedScore, 10), RoundTo(logisticsScore, 10), RoundTo(loadScore, 10)>>

\* the object candidates.push receives
Candidate(request_id, substitute, scenario, cur, recent) ==
  LET loadScore == LoadScore(recent)
  IN [request_id |-> request_id,
      substitute_id |-> substitute.employee_id,
      score |-> FinalScore(cur.speedScore, cur.logisticsScore, loadScore, scenario.weights),
      scenario_type |-> scenario.type,
      details_json |->
        [speed_score |-> cur.speedScore,
         logistics_score |-> cur.logisticsScore,
         load_score |-> loadScore,
         eta_hours |-> cur.logistics.eta_hours,
         travel_cost |-> cur.logistics.cost_est,
         travel_mode |-> cur.logistics.mode,
         distance_km |-> cur.logistics.distance_km,
         recent_assignments |-> recent,
         explanation |-> Explanation(cur.speedScore, cur.logisticsScore, loadScore),
         weights |-> scenario.weights],
      logistics_json |-> cur.logistics]

----------------------------------------------------------------------------
(* The store *)

ReqIds == {"r1", "r2"}

\* a request id no row of assignment_requests has
MissingId == "r0"

RequestStatus == {"open", "matching", "assigned", "closed", "canceled"}

Point(lon, lat) == [ok |-> TRUE, lon |-> lon, lat |-> lat]

\* a location the coordinates pattern does not match
Malformed == [ok |-> FALSE, lon |-> 0, lat |-> 0]

\* assignment_requests joined with branches: the columns the function reads;
\* r1 must start 3.5 days after time zero, r2 14 days after it
RequestRow(id) ==
  IF id = "r1" THEN [id |-> id, must_start_by |-> 302400, branches |-> [coords |-> Point(10, 0)]]
  ELSE [id |-> id, must_start_by |-> 1209600, branches |-> [coords |-> Point(0, 0)]]

\* substitute_profiles, in the order the store returns them
SubstituteProfiles ==
  << [employee_id |-> "e1", base_coords |-> Point(10, 0), active |-> TRUE],
     [employee_id |-> "e2", base_coords |-> Point(37, 0), active |-> TRUE],
     [employee_id |-> "e3", base_coords |-> Malformed, active |-> TRUE],
     [employee_id |-> "e4", base_coords |-> Point(11, 0), active |-> TRUE],
     [employee_id |-> "e5", base_coords |-> Point(13, 0), active |-> TRUE],
     [employee_id |-> "e6", base_coords |-> Point(24, 0), active |-> TRUE] >>

\* count of assignments rows with substitute_id = employee and created_at >= since
RecentAssignments(asg, employee, since) ==
  Cardinality({a \in asg : a.substitute_id = employee /\ a.created_at >= since})

\* what the code holds between reading the clock and the answer of the count query
ScoringLocals(request, substitute, rules, nowTime) ==
  LET logistics == calculateLogistics(ParseCoords(substitute.base_coords),
                                      ParseCoords(request.branches.coords), rules)
  IN [logistics |-> logistics,
      speedScore |-> SpeedScore(request.must_start_by, nowTime),
      logisticsScore |-> LogisticsScore(logistics),
      thirtyDaysAgo |-> nowTime - WindowSeconds]

NoLocals ==
  [logistics |-> [mode |-> "car", eta_hours |-> NaN, cost_est |-> NaN, distance_km |-> NaN],
   speedScore |-> NaN, logisticsScore |-> NaN, thirtyDaysAgo |-> 0]

\* a row stored under the other request, whatever request the candidate names
StoredRowElsewhere(c, id) ==
  [id |-> id, request_id |-> "r2", substitute_id |-> c.substitute_id,
   score |-> RoundTo(c.score, 100), scenario_type |-> c.scenario_type,
   details_json |-> c.details_json, logistics_json |-> c.logistics_json,
   eta_at |-> "null"]

\* the row assignment_candidates stores for candidate c: id is generated, score is
\* NUMERIC(5,2), eta_at is given no value
StoredRow(c, id) ==
  [id |-> id, request_id |-> c.request_id, substitute_id |-> c.substitute_id,
   score |-> RoundTo(c.score, 100), scenario_type |-> c.scenario_type,
   details_json |-> c.details_json, logistics_json |-> c.logistics_json,
   eta_at |-> "null"]

StoredRows(cs, runNo) == {StoredRow(cs[i], <<runNo, i>>) : i \in 1..Len(cs)}

\* score NUMERIC(5,2) NOT NULL: NaN and the infinities serialise to null, and an
\* absolute value of 1000 or more overflows the column
Insertable(c) ==
  /\ IsFinite(c.score)
  /\ RLt(RoundTo(c.score, 100), RInt(1000))
  /\ RGt(RoundTo(c.score, 100), RInt(0 - 1000))

\* a row without its generated id
Content(row) == [f \in DOMAIN row \ {"id"} |-> row[f]]

Contents(rows) == {Content(r) : r \in rows}

----------------------------------------------------------------------------
(* A whole run at one instant: the loops of the function with the clock and *)
(* the assignments table held still                                         *)

RECURSIVE ScoreAll(_, _, _, _, _, _)
ScoreAll(request, subs, scenario, data, nowTime, asg) ==
  IF subs = <<>> THEN <<>>
  ELSE LET sub == subs[Len(subs)]
           cur == ScoringLocals(request, sub, SettingOr(data, "logistics_rules", FallbackLogisticsRules), nowTime)
       IN Append(ScoreAll(request, SubSeq(subs, 1, Len(subs) - 1), scenario, data, nowTime, asg),
                 Candidate(request.id, sub, scenario, cur,
                           RecentAssignments(asg, sub.employee_id, cur.thirtyDaysAgo)))

RankScenario(request, subs, scenario, data, nowTime, asg) ==
  Slice(SortCandidates(ScoreAll(request, subs, scenario, data, nowTime, asg)))

MatchAt(request, subs, data, nowTime, asg) ==
  RankScenario(request, subs, Scenarios(data)[1], data, nowTime, asg)
    \o RankScenario(request, subs, Scenarios(data)[2], data, nowTime, asg)
    \o RankScenario(request, subs, Scenarios(data)[3], data, nowTime, asg)

----------------------------------------------------------------------------
(* State *)

VARIABLES
  status,       \* assignment_requests.status, by request id
  cands,        \* the rows of assignment_candidates
  assignments,  \* the rows of assignments
  settings,     \* the rows of settings, key to value_json
  pool,         \* the active rows of substitute_profiles
  now,          \* the clock, in seconds
  run,          \* the invocations of the match function, by slot
  view,         \* the React state of one open request page
  runs,         \* invocations started so far
  left          \* what the environment may still do: faults, ticks, assignments

vars == <<status, cands, assignments, settings, pool, now, run, view, runs, left>>

Slots == {1, 2}

\* the request the open page shows
PageReq == "r1"

NoResponse == [kind |-> "none", status |-> 0, candidates_count |-> 0, scenarios |-> <<>>]

ErrorResponse == [kind |-> "error", status |-> 500, candidates_count |-> 0, scenarios |-> <<>>]

SuccessResponse(n) ==
  [kind |-> "success", status |-> 200, candidates_count |-> n,
   scenarios |-> <<"default", "fast", "near">>]

NoRequest == [id |-> MissingId, must_start_by |-> 0, branches |-> [coords |-> Malformed]]

NoData == [k \in {} |-> NaN]

StatusOf(id) == IF id \in ReqIds THEN status[id] ELSE "none"

CandsOf(id) == {c \in cands : c.request_id = id}

IdleRun ==
  [pc |-> "idle", via |-> "none", no |-> 0, request_id |-> MissingId,
   request |-> NoRequest, substitutes |-> <<>>, data |-> NoData,
   scen |-> 0, idx |-> 0, cur |-> NoLocals, candidates |-> <<>>, allCandidates |-> <<>>,
   response |-> NoResponse,
   \* history, read by the properties only
   pre |-> [cands |-> {}, status |-> "none", now |-> 0, assignments |-> {}],
   log |-> {}, overlapped |-> FALSE, retry |-> FALSE]

InFlight(i) == run[i].pc \notin {"idle", "done"}

\* another invocation for the same request is in flight
Overlaps(i, id) == \E j \in Slots \ {i} : InFlight(j) /\ run[j].request_id = id

\* the rows a run of request id, one second before time zero, has left
SeedCandidates(id, runNo, subs, data, asg) ==
  StoredRows(MatchAt(RequestRow(id), subs, data, 0 - 1, asg), runNo)

\* assignments made before Init; the first is exactly 30 days old at time zero
SeedAssignments ==
  {[id |-> 1, request_id |-> "r2", substitute_id |-> "e1", created_at |-> 0 - WindowSeconds]}

----------------------------------------------------------------------------
(* The match function: one action per awaited store call *)

\* a store call fails (failed) or not; left.faults bounds the failures of a behaviour
Fault(failed) ==
  IF failed THEN left.faults > 0 /\ left' = [left EXCEPT !.faults = @ - 1] ELSE left' = left

\* a .single() that reports no error when no row matches
SingleErrorNever(id) == FALSE

\* .single() reports an error when no row has the id
SingleError(id) == id \notin ReqIds

RulesOf(data) == SettingOr(data, "logistics_rules", FallbackLogisticsRules)

\* an error that is swallowed: the invocation goes on to the status update
ThrownOn(r, entry) == [r EXCEPT !.pc = "updateStatus", !.log = r.log \cup entry]

\* catch: the error response; the locals of the invocation are gone
Thrown(r, entry) ==
  [IdleRun EXCEPT !.pc = "done", !.via = r.via, !.no = r.no, !.request_id = r.request_id,
                  !.allCandidates = r.allCandidates, !.response = ErrorResponse,
                  !.pre = r.pre, !.log = r.log \cup entry, !.overlapped = r.overlapped,
                  !.retry = r.retry]

\* serve, entered with body {request_id: id}; through runMatching of the page
\* (via = "page") or by any other caller of the function (via = "direct")
Invoke(i, id, via) ==
  /\ run[i].pc \in {"idle", "done"}
  /\ left.runs > 0
  /\ \A j \in Slots : j < i => InFlight(j)
  /\ via = "page" =>
       /\ id = PageReq
       /\ view.request \notin {"unloaded", "closed"}
       /\ \A j \in Slots : ~(InFlight(j) /\ run[j].via = "page")
  /\ runs' = runs + 1
  /\ left' = [left EXCEPT !.runs = @ - 1]
  /\ run' = [j \in Slots |->
               IF j = i
               THEN [IdleRun EXCEPT !.pc = IF via = "page" THEN "pageUpdate" ELSE "fetchRequest",
                                    !.via = via, !.no = runs + 1, !.request_id = id,
                                    !.pre = [cands |-> CandsOf(id), status |-> StatusOf(id),
                                             now |-> now, assignments |-> assignments],
                                    !.overlapped = Overlaps(i, id),
                                    !.retry = /\ run[i].pc = "done"
                                              /\ run[i].request_id = id
                                              /\ run[i].response.kind = "error"]
               ELSE IF InFlight(j) /\ run[j].request_id = id
                    THEN [run[j] EXCEPT !.overlapped = TRUE]
                    ELSE run[j]]
  /\ UNCHANGED <<status, cands, assignments, settings, pool, now, view>>

\* runMatching: update({status: "matching"}) before the function is invoked; the
\* result of the update is not inspected
PageUpdateStatus(i) ==
  /\ run[i].pc = "pageUpdate"
  /\ \E failed \in BOOLEAN :
       /\ Fault(failed)
       /\ status' = IF failed THEN status
                    ELSE [status EXCEPT ![run[i].request_id] = "matching"]
       /\ run' = [run EXCEPT ![i].pc = "fetchRequest",
                             ![i].log = @ \cup {IF failed THEN "pageUpdateFailed" ELSE "pageUpdate"}]
  /\ UNCHANGED <<cands, assignments, settings, pool, now, view, runs>>

\* select('*, branches (*)').eq('id', request_id).single(); if (requestError) throw
FetchRequest(i) ==
  /\ run[i].pc = "fetchRequest"
  /\ \E failed \in BOOLEAN :
       /\ Fault(failed)
       /\ run' = [run EXCEPT ![i] =
                    IF failed \/ SingleError(run[i].request_id)
                    THEN Thrown(@, {"requestError"})
                    ELSE [@ EXCEPT !.pc = "fetchSubstitutes",
                                   !.request = RequestRow(run[i].request_id)]]
  /\ UNCHANGED <<status, cands, assignments, settings, pool, now, view, runs>>

\* select('*, employees (*)').eq('active', true); if (substitutesError) throw
FetchSubstitutes(i) ==
  /\ run[i].pc = "fetchSubstitutes"
  /\ \E failed \in BOOLEAN :
       /\ Fault(failed)
       /\ run' = [run EXCEPT ![i] =
                    IF failed THEN Thrown(@, {"substitutesError"})
                    ELSE [@ EXCEPT !.pc = "fetchSettings", !.substitutes = pool]]
  /\ UNCHANGED <<status, cands, assignments, settings, pool, now, view, runs>>

\* the state of the loops when the code reaches the count query of substitute
\* idx of scenario scen: the clock has been read, the query is pending
AtCount(r, data, scen, idx, candidates, allCandidates) ==
  [r EXCEPT !.pc = "count", !.data = data, !.scen = scen, !.idx = idx,
            !.cur = ScoringLocals(r.request, r.substitutes[idx], RulesOf(data), now),
            !.candidates = candidates, !.allCandidates = allCandidates]

\* the loops are over: the next await is the delete
AtDelete(r, allCandidates) ==
  [r EXCEPT !.pc = "delete", !.scen = 0, !.idx = 0, !.cur = NoLocals,
            !.candidates = <<>>, !.allCandidates = allCandidates]

\* the settings query: its error is not read, a failed query leaves data null and
\* every key falls back; the code then runs to the first count query, or, with an
\* empty pool, through all three scenarios to the delete
FetchSettings(i) ==
  /\ run[i].pc = "fetchSettings"
  /\ \E failed \in BOOLEAN :
       /\ Fault(failed)
       /\ LET data == IF failed THEN NoData ELSE settings
              r == [run[i] EXCEPT !.log = @ \cup (IF failed THEN {"settingsError"} ELSE {})]
          IN run' = [run EXCEPT ![i] =
                       IF r.substitutes = <<>>
                       THEN AtDelete([r EXCEPT !.data = data], <<>>)
                       ELSE AtCount(r, data, 1, 1, <<>>, <<>>)]
  /\ UNCHANGED <<status, cands, assignments, settings, pool, now, view, runs>>

\* the count query of one substitute in one scenario (a failed query gives a null
\* count, read as 0), the push, and the code up to the next await: the next
\* substitute, or sort and slice and the next scenario, or the delete
Count(i) ==
  /\ run[i].pc = "count"
  /\ \E failed \in BOOLEAN :
       /\ Fault(failed)
       /\ LET r == [run[i] EXCEPT !.log = @ \cup (IF failed THEN {"countError"} ELSE {})]
              sub == r.substitutes[r.idx]
              recent == IF failed THEN 0
                        ELSE RecentAssignments(assignments, sub.employee_id, r.cur.thirtyDaysAgo)
              cs == Append(r.candidates,
                           Candidate(r.request_id, sub, Scenarios(r.data)[r.scen], r.cur, recent))
              all == r.allCandidates \o Slice(SortCandidates(cs))
          IN run' = [run EXCEPT ![i] =
                       IF r.idx < Len(r.substitutes)
                       THEN AtCount(r, r.data, r.scen, r.idx + 1, cs, r.allCandidates)
                       ELSE IF r.scen < 3
                       THEN AtCount(r, r.data, r.scen + 1, 1, <<>>, all)
                       ELSE AtDelete(r, all)]
  /\ UNCHANGED <<status, cands, assignments, settings, pool, now, view, runs>>

\* delete().eq('request_id', request_id): the result is not inspected, so a
\* failed delete goes unnoticed; the insert is skipped when nothing was computed
DeleteOld(i) ==
  /\ run[i].pc = "delete"
  /\ \E failed \in BOOLEAN :
       /\ Fault(failed)
       /\ cands' = IF failed THEN cands
                   ELSE {c \in cands : c.request_id # run[i].request_id}
       /\ run' = [run EXCEPT ![i].pc = IF run[i].allCandidates # <<>> THEN "insert" ELSE "updateStatus",
                             ![i].log = @ \cup {IF failed THEN "deleteFailed" ELSE "delete"}]
  /\ UNCHANGED <<status, assignments, settings, pool, now, view, runs>>

\* insert(allCandidates), one statement: all rows or none; if (insertError) throw
InsertNew(i) ==
  /\ run[i].pc = "insert"
  /\ \E failed \in BOOLEAN :
       /\ Fault(failed)
       /\ LET r == run[i]
              rejected == \E k \in 1..Len(r.allCandidates) : ~Insertable(r.allCandidates[k])
          IN IF failed \/ rejected
             THEN /\ cands' = cands
                  /\ run' = [run EXCEPT ![i] = Thrown(r, {"insertFailed"})]
             ELSE /\ cands' = cands \cup StoredRows(r.allCandidates, r.no)
                  /\ run' = [run EXCEPT ![i].pc = "updateStatus", ![i].log = @ \cup {"insert"}]
  /\ UNCHANGED <<status, assignments, settings, pool, now, view, runs>>

\* update({status: 'matching'}).eq('id', request_id), result not inspected, and
\* the success response
UpdateStatus(i) ==
  /\ run[i].pc = "updateStatus"
  /\ \E failed \in BOOLEAN :
       /\ Fault(failed)
       /\ status' = IF failed THEN status
                    ELSE [status EXCEPT ![run[i].request_id] = "matching"]
       /\ run' = [run EXCEPT ![i] =
                    [Thrown(@, {IF failed THEN "updateFailed" ELSE "update"})
                       EXCEPT !.response = SuccessResponse(Len(run[i].allCandidates))]]
  /\ UNCHANGED <<cands, assignments, settings, pool, now, view, runs>>

\* OPTIONS: the CORS preflight is answered before anything is read
Options(i) ==
  /\ run[i].pc \in {"idle", "done"}
  /\ left.runs > 0
  /\ \A j \in Slots : j < i => InFlight(j)
  /\ runs' = runs + 1
  /\ left' = [left EXCEPT !.runs = @ - 1]
  /\ run' = [run EXCEPT ![i] =
               [IdleRun EXCEPT !.pc = "done", !.via = "options", !.no = runs + 1,
                               !.response = [NoResponse EXCEPT !.kind = "preflight", !.status = 200]]]
  /\ UNCHANGED <<status, cands, assignments, settings, pool, now, view>>

----------------------------------------------------------------------------
(* The request page *)

\* the invocation the read overlaps, when there is exactly one for the page's
\* request and no other has overlapped it
LoneRun ==
  {i \in Slots : InFlight(i) /\ run[i].request_id = PageReq /\ ~run[i].overlapped}

\* what a read may return while run i is in flight: the set of before, or, once
\* computed, the new set
Allowed(i) ==
  {Contents(run[i].pre.cands)} \cup
  (IF run[i].pc \in {"delete", "insert", "updateStatus"}
   THEN {Contents(StoredRows(run[i].allCandidates, run[i].no))} ELSE {})

\* fetchCandidates: one select of the rows of the request
PageFetchCandidates ==
  /\ \E failed \in BOOLEAN :
       /\ Fault(failed)
       /\ view' = IF failed THEN view
                  ELSE [view EXCEPT !.candidates = CandsOf(PageReq),
                                    !.during = \E i \in LoneRun : run[i].pre.cands # {},
                                    !.allowed = UNION {Allowed(i) : i \in LoneRun}]
  /\ UNCHANGED <<status, cands, assignments, settings, pool, now, run, runs>>

\* fetchRequest: one select of the request
PageFetchRequest ==
  /\ \E failed \in BOOLEAN :
       /\ Fault(failed)
       /\ view' = IF failed THEN view ELSE [view EXCEPT !.request = status[PageReq]]
  /\ UNCHANGED <<status, cands, assignments, settings, pool, now, run, runs>>

\* assignCandidate, first await: the assignment of a listed candidate is inserted
\* (created_at DEFAULT now()); an error is thrown and ends the handler
AssignInsert ==
  /\ view.request # "unloaded"
  /\ ~view.assigning
  /\ left.assigns > 0
  /\ \E c \in view.candidates, failed \in BOOLEAN :
       /\ IF failed THEN left.faults > 0 /\ left' = [left EXCEPT !.faults = @ - 1]
          ELSE left' = [left EXCEPT !.assigns = @ - 1]
       /\ assignments' = IF failed THEN assignments
                         ELSE assignments \cup
                              {[id |-> Cardinality(assignments) + 1, request_id |-> PageReq,
                                substitute_id |-> c.substitute_id, created_at |-> now]}
       /\ view' = [view EXCEPT !.assigning = ~failed]
  /\ UNCHANGED <<status, cands, settings, pool, now, run, runs>>

\* assignCandidate, second await: update({status: "assigned"}), result not inspected
AssignUpdate ==
  /\ view.assigning
  /\ \E failed \in BOOLEAN :
       /\ Fault(failed)
       /\ status' = IF failed THEN status ELSE [status EXCEPT ![PageReq] = "assigned"]
  /\ view' = [view EXCEPT !.assigning = FALSE]
  /\ UNCHANGED <<cands, assignments, settings, pool, now, run, runs>>

\* time passes
Tick ==
  /\ left.ticks > 0
  /\ \E step \in TickSteps : now' = now + step
  /\ left' = [left EXCEPT !.ticks = @ - 1]
  /\ UNCHANGED <<status, cands, assignments, settings, pool, run, view, runs>>

----------------------------------------------------------------------------
(* Specification *)

NoView == [request |-> "unloaded", candidates |-> {}, assigning |-> FALSE,
           during |-> FALSE, allowed |-> {}]

\* settings as the migration seeds them, or with the logistics_rules row removed
SettingsChoices == {SeedSettings, Restrict(SeedSettings, SettingKeys \ {"logistics_rules"})}

\* Both requests carry the rows an earlier run with the same settings has left
\* (rows of rulesless settings cannot be inserted, so there are none). That
\* run saw the pool of now, or, when substitutes have been deactivated since
\* (shrunk), the largest pool.
InitWith(budget, pools, shrunk, settingsChoices, statuses) ==
  /\ settings \in settingsChoices
  /\ pool \in pools
  /\ assignments = SeedAssignments
  /\ status \in {[r \in ReqIds |-> IF r = PageReq THEN s ELSE "matching"] : s \in statuses}
  /\ \E before \in {pool} \cup (IF shrunk THEN {SubSeq(SubstituteProfiles, 1, MaxPool)} ELSE {}) :
       cands = IF "logistics_rules" \in DOMAIN settings
               THEN SeedCandidates("r1", 0, before, settings, assignments)
                      \cup SeedCandidates("r2", 0 - 1, before, settings, assignments)
               ELSE {}
  /\ now = 0
  /\ run = [i \in Slots |-> IdleRun]
  /\ view = NoView
  /\ runs = 0
  /\ left = budget

Pools(k) == {SubSeq(SubstituteProfiles, 1, j) : j \in 0..k}

\* one awaited step of the invocation in slot i
Step(i) ==
  \/ PageUpdateStatus(i)
  \/ FetchRequest(i)
  \/ FetchSubstitutes(i)
  \/ FetchSettings(i)
  \/ Count(i)
  \/ DeleteOld(i)
  \/ InsertNew(i)
  \/ UpdateStatus(i)

\* Invocations one after another (slot 1 only), from the page or directly, for
\* a request that exists or one that does not, with store calls that may fail.
Init ==
  InitWith([runs |-> MaxRuns, faults |-> MaxFaults, ticks |-> 0, assigns |-> 0],
           Pools(MaxPool), TRUE, SettingsChoices, {"open", "matching"})

Next ==
  \/ \E id \in {PageReq, MissingId}, via \in {"page", "direct"} : Invoke(1, id, via)
  \/ Options(1)
  \/ Step(1)
  \/ PageFetchRequest

Spec == Init /\ [][Next]_vars

\* Invocations for one request that may overlap, and a reader of its candidates;
\* no store call fails.
InitConcurrent ==
  InitWith([runs |-> MaxRuns, faults |-> 0, ticks |-> 0, assigns |-> 0],
           Pools(MaxPool), FALSE, {SeedSettings}, {"open"})

NextConcurrent ==
  \/ \E i \in Slots : Invoke(i, PageReq, "direct")
  \/ \E i \in Slots : FetchRequest(i) \/ FetchSubstitutes(i) \/ FetchSettings(i) \/ Count(i)
  \/ \E i \in Slots : DeleteOld(i) \/ InsertNew(i) \/ UpdateStatus(i)
  \/ PageFetchCandidates

SpecConcurrent == InitConcurrent /\ [][NextConcurrent]_vars

\* Invocations one after another while the clock advances; no store call fails.
InitClock ==
  InitWith([runs |-> MaxRuns, faults |-> 0, ticks |-> MaxTicks, assigns |-> 0],
           Pools(MaxPool), FALSE, {SeedSettings}, {"open"})

NextClock ==
  \/ \E id \in ReqIds : Invoke(1, id, "direct")
  \/ FetchRequest(1) \/ FetchSubstitutes(1) \/ FetchSettings(1) \/ Count(1)
  \/ DeleteOld(1) \/ InsertNew(1) \/ UpdateStatus(1)
  \/ Tick

SpecClock == InitClock /\ [][NextClock]_vars

\* the weight rows an admin may have removed or rewritten; logistics_rules as seeded
WeightKeys == {"scoring_weights", "scoring_weights_fast", "scoring_weights_near"}

WeightChoices ==
  {Restrict(base, SettingKeys \ gone) : base \in {SeedSettings, EditedSettings},
                                        gone \in SUBSET WeightKeys}

\* Invocations one after another with the weight rows varied, over pools up to
\* the whole of SubstituteProfiles (more than slice keeps); no store call fails.
InitSettings ==
  InitWith([runs |-> MaxRuns, faults |-> 0, ticks |-> 0, assigns |-> 0],
           Pools(MaxPool) \cup {SubstituteProfiles}, FALSE, WeightChoices, {"open"})

NextSettings ==
  \/ \E id \in ReqIds : Invoke(1, id, "direct")
  \/ FetchRequest(1) \/ FetchSubstitutes(1) \/ FetchSettings(1) \/ Count(1)
  \/ DeleteOld(1) \/ InsertNew(1) \/ UpdateStatus(1)

SpecSettings == InitSettings /\ [][NextSettings]_vars

\* the logistics_rules row as seeded, rewritten, or removed, or the weight rows
\* rewritten
RulesChoices ==
  {[SeedSettings EXCEPT !["logistics_rules"] = rules] :
     rules \in {SeedLogisticsRules, EdgeLogisticsRules, NegativeLogisticsRules, ZeroLogisticsRules}}
  \cup {Restrict(SeedSettings, SettingKeys \ {"logistics_rules"}), EditedSettings}

\* a pool of any one substitute, of e4 and e5, of e2 before e1, or of the first
\* MaxPool or fewer
ScoringPools ==
  Pools(MaxPool) \cup {<<SubstituteProfiles[j]>> : j \in 1..Len(SubstituteProfiles)}
    \cup {SubSeq(SubstituteProfiles, 4, 5), <<SubstituteProfiles[2], SubstituteProfiles[1]>>}

\* k assignments of each of e1 and e3 inside the window, a day apart, and one of
\* each just outside it
AssignmentsWith(k) ==
  {[id |-> j, request_id |-> "r2", substitute_id |-> e, created_at |-> 0 - 86400 * j] :
     j \in 1..k, e \in {"e1", "e3"}}
  \cup {[id |-> 0, request_id |-> "r2", substitute_id |-> e, created_at |-> 0 - WindowSeconds - 1] :
          e \in {"e1", "e3"}}

AssignmentChoices == {AssignmentsWith(k) : k \in 0..MaxRecent}

\* Invocations one after another for requests never matched before, with the
\* logistics rules, the pool and the assignments varied; no store call fails.
InitScoring ==
  /\ settings \in RulesChoices
  /\ pool \in ScoringPools
  /\ assignments \in AssignmentChoices
  /\ status = [r \in ReqIds |-> "open"]
  /\ cands = {}
  /\ now = 0
  /\ run = [i \in Slots |-> IdleRun]
  /\ view = NoView
  /\ runs = 0
  /\ left = [runs |-> MaxRuns, faults |-> 0, ticks |-> 0, assigns |-> 0]

NextScoring ==
  \/ \E id \in ReqIds : Invoke(1, id, "direct")
  \/ FetchRequest(1) \/ FetchSubstitutes(1) \/ FetchSettings(1) \/ Count(1)
  \/ DeleteOld(1) \/ InsertNew(1) \/ UpdateStatus(1)

SpecScoring == InitScoring /\ [][NextScoring]_vars

\* Invocations one after another for the request of the open page, from its
\* Run Matching button or directly, while the page reads the request and its
\* candidates and assigns one; the request may already be assigned, closed or
\* canceled; store calls may fail.
InitPage ==
  InitWith([runs |-> MaxRuns, faults |-> MaxFaults - 1, ticks |-> 0, assigns |-> MaxAssignments],
           Pools(MaxPool - 1), FALSE, {SeedSettings}, {"open", "assigned", "closed", "canceled"})

NextPage ==
  \/ \E via \in {"page", "direct"} : Invoke(1, PageReq, via)
  \/ Step(1)
  \/ PageFetchRequest
  \/ PageFetchCandidates
  \/ AssignInsert
  \/ AssignUpdate

SpecPage == InitPage /\ [][NextPage]_vars

\* longitudes and latitudes, in degrees, of the places a substitute may be based at
GeoLons == {0 - 20, 0, 10, 37}

GeoLats == {0 - 30, 0, 45}

\* a pool of one substitute, based on the equator or on the meridian of a branch
GeoPools ==
  {<<[SubstituteProfiles[1] EXCEPT !.base_coords = Point(lon, lat)]>> :
     lon \in GeoLons, lat \in GeoLats}

\* the two places lie on one meridian or both on the equator, the arcs on
\* which haversineDistance is modelled
OnOneArc(a, b) == a.lon = b.lon \/ (a.lat = 0 /\ b.lat = 0)

\* Invocations one after another for requests never matched before, the one
\* substitute of the pool based at any place of the grid; no store call fails.
InitGeo ==
  /\ settings = SeedSettings
  /\ pool \in GeoPools
  /\ assignments = {}
  /\ status = [r \in ReqIds |-> "open"]
  /\ cands = {}
  /\ now = 0
  /\ run = [i \in Slots |-> IdleRun]
  /\ view = NoView
  /\ runs = 0
  /\ left = [runs |-> MaxRuns, faults |-> 0, ticks |-> 0, assigns |-> 0]

NextGeo ==
  \/ \E id \in ReqIds :
       /\ OnOneArc(pool[1].base_coords, RequestRow(id).branches.coords)
       /\ Invoke(1, id, "direct")
  \/ FetchRequest(1) \/ FetchSubstitutes(1) \/ FetchSettings(1) \/ Count(1)
  \/ DeleteOld(1) \/ InsertNew(1) \/ UpdateStatus(1)

SpecGeo == InitGeo /\ [][NextGeo]_vars

----------------------------------------------------------------------------
(* Properties *)

Done(i) == run[i].pc = "done" /\ run[i].via \in {"page", "direct"}

Succeeded(i) == Done(i) /\ run[i].response.kind = "success"

Failed(i) == Done(i) /\ run[i].response.kind = "error"

\* the rows invocation i computed, as the store holds them
NewRows(i) == StoredRows(run[i].allCandidates, run[i].no)

\* the log entries of store calls that write, made or failed
WriteCalls ==
  {"delete", "deleteFailed", "insert", "insertFailed", "update", "updateFailed"}

\* C1: a read of the candidates of a request, made while one invocation for it
\* is in flight and a non-empty set of an earlier run existed, returns that
\* earlier set whole or the new set whole, and never no rows.
C1_ReadIsOldOrNew ==
  view.during => /\ view.candidates # {}
                 /\ Contents(view.candidates) \in view.allowed

\* C2: when the insert of an invocation failed, the candidates of the request
\* are those of before the invocation.
C2_FailedInsertKeepsPrior ==
  \A i \in Slots :
    (Failed(i) /\ "insertFailed" \in run[i].log) =>
      CandsOf(run[i].request_id) = run[i].pre.cands

\* C3: an invocation whose delete failed reports failure and inserts nothing,
\* and the request never holds rows of before together with its rows.
C3_FailedDeleteIsFatal ==
  \A i \in Slots :
    "deleteFailed" \in run[i].log =>
      /\ "insert" \notin run[i].log
      /\ Done(i) => run[i].response.kind = "error"
      /\ ~(/\ CandsOf(run[i].request_id) \cap run[i].pre.cands # {}
           /\ CandsOf(run[i].request_id) \cap NewRows(i) # {})

\* the log entries of failures before the replace step
EarlyFailures == {"requestError", "substitutesError", "settingsError", "countError"}

\* C4: an invocation in which a step before the replace step failed has ended
\* with the candidates and the status of the request as they were when it
\* was triggered, from the page or directly.
C4_EarlyFailureChangesNothing ==
  \A i \in Slots :
    (Done(i) /\ run[i].log \cap EarlyFailures # {}) =>
      /\ CandsOf(run[i].request_id) = run[i].pre.cands
      /\ StatusOf(run[i].request_id) = run[i].pre.status

\* no two rows of the request share the substitute and the scenario
NoDuplicates(id) ==
  \A a, b \in CandsOf(id) :
    (a.substitute_id = b.substitute_id /\ a.scenario_type = b.scenario_type) => a = b

\* C5: after an invocation has reported success, with no other invocation of
\* the request in flight, the candidates of the request are exactly the rows
\* it computed, and no substitute occurs twice in a scenario.
C5_ReplaceSemantics ==
  \A i \in Slots :
    (Succeeded(i) /\ ~Overlaps(i, run[i].request_id)) =>
      /\ CandsOf(run[i].request_id) = NewRows(i)
      /\ NoDuplicates(run[i].request_id)

\* the rows of request id in scenario t
ScenarioRows(id, t) == {c \in CandsOf(id) : c.scenario_type = t}

\* C6: in every state, the rows of a request in one scenario come from one
\* run and are no more than 5, and a request has no more than 15 rows.
C6_OneSetPerScenario ==
  \A id \in ReqIds :
    /\ \A t \in ScenarioTypes :
         /\ \A a, b \in ScenarioRows(id, t) : a.id[1] = b.id[1]
         /\ Cardinality(ScenarioRows(id, t)) <= TopN
    /\ Cardinality(CandsOf(id)) <= 3 * TopN

\* C7: an invocation that succeeds right after a run of the same request, with
\* pool, settings and assignments unchanged, leaves the rows that run had left:
\* the same substitutes, scores and sub-scores in every scenario.
C7_Idempotent ==
  \A i \in Slots :
    (Succeeded(i) /\ run[i].pre.assignments = assignments) =>
      Contents(CandsOf(run[i].request_id)) = Contents(run[i].pre.cands)

\* the rows one successful run of request id leaves, at the inputs of now
SingleRun(id) ==
  Contents(StoredRows(MatchAt(RequestRow(id), pool, settings, now, assignments), 0))

\* C8: an invocation that reports success after a failed one of the same
\* request leaves the rows one successful run would have left, and the
\* status 'matching'.
C8_RetryIsSafe ==
  \A i \in Slots :
    (Succeeded(i) /\ run[i].retry) =>
      /\ Contents(CandsOf(run[i].request_id)) = SingleRun(run[i].request_id)
      /\ StatusOf(run[i].request_id) = "matching"

\* an invocation for the id no request has
ForMissing(i) == run[i].via = "direct" /\ run[i].request_id = MissingId

\* C9: an invocation for a request id that does not exist ends with the error
\* response right after the request query, and makes no delete, no insert and
\* no status update.
C9_MissingRequestFails ==
  \A i \in Slots :
    ForMissing(i) =>
      /\ run[i].pc \in {"fetchRequest", "done"}
      /\ run[i].pc = "done" => run[i].response = ErrorResponse
      /\ run[i].log \cap WriteCalls = {}

C9_Witness == \E i \in Slots : ForMissing(i) /\ Failed(i)

\* C10: with an empty pool an invocation reports success with candidates_count
\* 0, the request has no candidate row left, and its status is 'matching'.
C10_EmptyPool ==
  \A i \in Slots :
    (Succeeded(i) /\ pool = <<>>) =>
      /\ run[i].response.candidates_count = 0
      /\ CandsOf(run[i].request_id) = {}
      /\ StatusOf(run[i].request_id) = "matching"

\* C11: an invocation that has reported success has applied the status update:
\* its update call did not fail, and the status of the request is 'matching'.
C11_SuccessMeansMatching ==
  \A i \in Slots :
    Succeeded(i) =>
      /\ "updateFailed" \notin run[i].log
      /\ StatusOf(run[i].request_id) = "matching"

\* C12: an invocation whose settings query failed makes no write call and ends
\* with the error response.
C12_SettingsFailureIsFatal ==
  \A i \in Slots :
    "settingsError" \in run[i].log =>
      /\ run[i].log \cap WriteCalls = {}
      /\ run[i].pc = "done"
      /\ run[i].response = ErrorResponse

\* the candidates invocation i has computed so far
Scored(i) ==
  {run[i].candidates[k] : k \in 1..Len(run[i].candidates)}
    \cup {run[i].allCandidates[k] : k \in 1..Len(run[i].allCandidates)}

\* mode, eta and cost of distance d by the rules, as section 4.2 states them
ExpectedMode(d, rules) ==
  IF RLt(Field(rules, "air_threshold_km"), d) THEN "air"
  ELSE IF RLt(Field(rules, "rail_threshold_km"), d) THEN "rail"
  ELSE "car"

ExpectedEta(d, mode, rules) == RDiv(d, Field(rules, mode \o "_speed_kmh"))

ExpectedCost(d, mode, rules) ==
  RAdd(Field(rules, mode \o "_base_cost"), RMul(d, Field(rules, mode \o "_cost_per_km")))

\* the documented default rules
DocumentedLogisticsRules ==
  [air_threshold_km |-> RInt(1500), rail_threshold_km |-> RInt(200),
   air_speed_kmh |-> RInt(700), rail_speed_kmh |-> RInt(80), car_speed_kmh |-> RInt(60),
   air_base_cost |-> RInt(5000), rail_base_cost |-> RInt(1500), car_base_cost |-> RInt(500),
   air_cost_per_km |-> RInt(3), rail_cost_per_km |-> RInt(1), car_cost_per_km |-> Rat(1, 2)]

\* 100 - (eta / 24) * 50 - (cost / 10000) * 50, held within 0 and 100
ExpectedLogisticsScore(eta, cost) ==
  LET raw == RSub(RSub(RInt(100), RMul(RDiv(eta, RInt(24)), RInt(50))),
                  RMul(RDiv(cost, RInt(10000)), RInt(50)))
  IN IF RLt(raw, RInt(0)) THEN RInt(0) ELSE IF RLt(RInt(100), raw) THEN RInt(100) ELSE raw

\* C13: with no logistics_rules row, every candidate an invocation computes has
\* the mode, eta, cost and logistics score the documented default rules give,
\* all of them numbers, and the invocation, when no store call fails, reports
\* success.
C13_DefaultLogisticsRules ==
  \A i \in Slots :
    "logistics_rules" \notin DOMAIN settings =>
      /\ \A c \in Scored(i) :
           LET d == c.logistics_json.distance_km
               mode == ExpectedMode(d, DocumentedLogisticsRules)
           IN /\ c.logistics_json.mode = mode
              /\ c.logistics_json.eta_hours = ExpectedEta(d, mode, DocumentedLogisticsRules)
              /\ c.logistics_json.cost_est = ExpectedCost(d, mode, DocumentedLogisticsRules)
              /\ c.details_json.logistics_score =
                   ExpectedLogisticsScore(c.logistics_json.eta_hours, c.logistics_json.cost_est)
              /\ IsFinite(c.details_json.logistics_score)
      /\ (Done(i) /\ run[i].request_id \in ReqIds /\ left.faults = MaxFaults) =>
           run[i].response.kind = "success"

\* the documented default weights of a scenario, and the settings key of its weights
DocumentedWeights(t) ==
  CASE t = "default" -> [speed |-> Rat(40, 100), logistics |-> Rat(35, 100), load |-> Rat(25, 100)]
    [] t = "fast" -> [speed |-> Rat(50, 100), logistics |-> Rat(35, 100), load |-> Rat(15, 100)]
    [] t = "near" -> [speed |-> Rat(25, 100), logistics |-> Rat(60, 100), load |-> Rat(15, 100)]

WeightKeyOf(t) ==
  CASE t = "default" -> "scoring_weights"
    [] t = "fast" -> "scoring_weights_fast"
    [] t = "near" -> "scoring_weights_near"

\* speed * w.speed + logistics * w.logistics + load * w.load of candidate c
WeightedSum(c, w) ==
  RAdd(RAdd(RMul(c.details_json.speed_score, w.speed),
            RMul(c.details_json.logistics_score, w.logistics)),
       RMul(c.details_json.load_score, w.load))

\* C14: every candidate is scored with the weights its scenario's settings row
\* stores, or, when that row is absent, with the documented default weights
\* of the scenario; and an invocation with weight rows absent reports success.
C14_WeightFallbacks ==
  \A i \in Slots :
    /\ \A c \in Scored(i) :
         LET w == IF WeightKeyOf(c.scenario_type) \in DOMAIN settings
                  THEN settings[WeightKeyOf(c.scenario_type)]
                  ELSE DocumentedWeights(c.scenario_type)
         IN /\ c.details_json.weights = w
            /\ c.score = WeightedSum(c, w)
    /\ Done(i) => run[i].response.kind = "success"

\* a run has succeeded with one weight row absent and another one rewritten
C14_Witness ==
  \E i \in Slots :
    /\ Succeeded(i)
    /\ run[i].allCandidates # <<>>
    /\ "scoring_weights_fast" \notin DOMAIN settings
    /\ "scoring_weights" \in DOMAIN settings
    /\ settings["scoring_weights"] # DocumentedWeights("default")

\* the candidates of scenario t among those invocation i computed, in order
Ranked(i, t) == SelectSeq(run[i].allCandidates, LAMBDA c : c.scenario_type = t)

\* every substitute of the pool scored for scenario number s, in pool order
Unranked(i, s) ==
  ScoreAll(RequestRow(run[i].request_id), pool, Scenarios(settings)[s], settings, now, assignments)

\* the place in the pool of the substitute of candidate c
PoolIndex(c) == CHOOSE j \in 1..Len(pool) : pool[j].employee_id = c.substitute_id

\* C16: once the loops of an invocation are over, the candidates of each
\* scenario are min(5, pool size) substitutes of the pool with their weighted
\* sums as scores, in descending order of score, equal scores in pool order;
\* and every substitute left out scores no higher than any kept one, and
\* comes later in the pool than any kept one of equal score.
C16_TopFiveStable ==
  \A i \in Slots :
    (run[i].pc \in {"delete", "insert", "updateStatus"} \/ Succeeded(i)) =>
      \A s \in 1..3 :
        LET kept == Ranked(i, Scenarios(settings)[s].type)
            all == Unranked(i, s)
        IN /\ Len(kept) = (IF Len(pool) < 5 THEN Len(pool) ELSE 5)
           /\ \A k \in 1..Len(kept) :
                /\ \E j \in 1..Len(pool) : pool[j].employee_id = kept[k].substitute_id
                /\ kept[k] = all[PoolIndex(kept[k])]
                /\ kept[k].score = WeightedSum(kept[k], kept[k].details_json.weights)
           /\ \A k, m \in 1..Len(kept) :
                k < m => /\ ~RLt(kept[k].score, kept[m].score)
                         /\ kept[k].score = kept[m].score => PoolIndex(kept[k]) < PoolIndex(kept[m])
           /\ \A j \in 1..Len(all) :
                (\A k \in 1..Len(kept) : PoolIndex(kept[k]) # j) =>
                  \A k \in 1..Len(kept) :
                    /\ ~RLt(kept[k].score, all[j].score)
                    /\ kept[k].score = all[j].score => PoolIndex(kept[k]) < j

\* a run has succeeded over a pool of more than 5 in which two substitutes of
\* one scenario have equal scores and two have different scores
C16_Witness ==
  \E i \in Slots :
    /\ Succeeded(i)
    /\ Len(pool) > 5
    /\ \E a, b \in Scored(i) :
         a.scenario_type = b.scenario_type /\ a.substitute_id # b.substitute_id /\ a.score = b.score
    /\ \E a, b \in Scored(i) :
         a.scenario_type = b.scenario_type /\ a.score # b.score

\* C15: no candidate is computed for a substitute whose location does not
\* parse, and an invocation over a pool with such a substitute reports
\* success with candidates for every other substitute.
C15_MalformedSkipped ==
  \A i \in Slots :
    /\ \A c \in Scored(i) :
         \A j \in 1..Len(pool) :
           pool[j].employee_id = c.substitute_id => pool[j].base_coords.ok
    /\ (Done(i) /\ "logistics_rules" \in DOMAIN settings) =>
         /\ run[i].response.kind = "success"
         /\ \A j \in 1..Len(pool) :
              pool[j].base_coords.ok =>
                \E c \in Scored(i) : c.substitute_id = pool[j].employee_id

\* the logistics rules an invocation works with
RulesUsed == IF "logistics_rules" \in DOMAIN settings THEN settings["logistics_rules"] ELSE NoData

\* C17: the mode of every candidate is air when its distance exceeds
\* air_threshold_km, else rail when it exceeds rail_threshold_km, else car; a
\* distance equal to rail_threshold_km gives car, one equal to
\* air_threshold_km gives rail or car; eta and cost are computed with the
\* constants of that mode.
C17_ModeByThreshold ==
  \A i \in Slots :
    \A c \in Scored(i) :
      LET d == c.logistics_json.distance_km
          mode == c.logistics_json.mode
      IN /\ mode \in {"car", "rail", "air"}
         /\ mode = ExpectedMode(d, RulesUsed)
         /\ (d = Field(RulesUsed, "rail_threshold_km") /\ mode # "air") => mode = "car"
         /\ d = Field(RulesUsed, "air_threshold_km") => mode \in {"rail", "car"}
         /\ c.logistics_json.eta_hours = ExpectedEta(d, mode, RulesUsed)
         /\ c.logistics_json.cost_est = ExpectedCost(d, mode, RulesUsed)

\* one run has scored a substitute exactly rail_threshold_km away as car and
\* one exactly air_threshold_km away as rail
C17_Witness ==
  \E i \in Slots :
    /\ \E c \in Scored(i) :
         /\ c.logistics_json.distance_km = Field(RulesUsed, "rail_threshold_km")
         /\ c.logistics_json.mode = "car"
    /\ \E c \in Scored(i) :
         /\ c.logistics_json.distance_km = Field(RulesUsed, "air_threshold_km")
         /\ c.logistics_json.mode = "rail"

\* C18: eta is distance / speed and cost is base cost + distance * cost per km
\* of the candidate's mode; distance 0 gives car, eta 0 and the base cost of
\* the car; every distance above 0 gives an eta above 0.
C18_EtaAndCost ==
  \A i \in Slots :
    \A c \in Scored(i) :
      LET d == c.logistics_json.distance_km
          mode == c.logistics_json.mode
      IN /\ c.logistics_json.eta_hours = ExpectedEta(d, mode, RulesUsed)
         /\ c.logistics_json.cost_est = ExpectedCost(d, mode, RulesUsed)
         /\ d = RInt(0) => /\ mode = "car"
                           /\ c.logistics_json.eta_hours = RInt(0)
                           /\ c.logistics_json.cost_est = Field(RulesUsed, "car_base_cost")
         /\ RLt(RInt(0), d) => RLt(RInt(0), c.logistics_json.eta_hours)

\* x is a number from 0 to 100
InRange(x) == IsFinite(x) /\ ~RLt(x, RInt(0)) /\ ~RLt(RInt(100), x)

\* C19: the speed, logistics and load scores of every candidate lie in [0, 100].
C19_SubScoresInRange ==
  \A i \in Slots :
    \A c \in Scored(i) :
      /\ InRange(c.details_json.speed_score)
      /\ InRange(c.details_json.logistics_score)
      /\ InRange(c.details_json.load_score)

\* assignments of a substitute created in the 30 days (2592000 s) before now
RecentCount(employee) ==
  Cardinality({a \in assignments : a.substitute_id = employee /\ a.created_at >= now - 2592000})

\* C20: the load score of every candidate is 100 - 25 * n held within 0 and
\* 100, n being the number of assignments of its substitute created in the
\* last 30 days: 100 for none, 0 for four or more.
C20_LoadScore ==
  \A i \in Slots :
    \A c \in Scored(i) :
      LET n == RecentCount(c.substitute_id)
      IN /\ c.details_json.recent_assignments = n
         /\ c.details_json.load_score = (IF n >= 4 THEN RInt(0) ELSE RInt(100 - 25 * n))

\* C21: all the candidates one invocation computes carry the same speed score.
C21_OneSpeedScore ==
  \A i \in Slots :
    \A a, b \in Scored(i) : a.details_json.speed_score = b.details_json.speed_score

\* C22: the candidates one invocation computes for one substitute in different
\* scenarios carry the same sub-scores, recent-assignment count and logistics
\* estimate.
C22_ScenariosDifferByWeights ==
  \A i \in Slots :
    \A a, b \in Scored(i) :
      a.substitute_id = b.substitute_id =>
        /\ a.details_json.speed_score = b.details_json.speed_score
        /\ a.details_json.logistics_score = b.details_json.logistics_score
        /\ a.details_json.load_score = b.details_json.load_score
        /\ a.details_json.recent_assignments = b.details_json.recent_assignments
        /\ a.logistics_json = b.logistics_json

\* C23: the candidates_count of a success response is the number of rows the
\* invocation has persisted for the request, 3 * min(5, size of the pool), and
\* its scenarios are default, fast, near in that order.
C23_SummaryCount ==
  \A i \in Slots :
    Succeeded(i) =>
      /\ NewRows(i) \subseteq CandsOf(run[i].request_id)
      /\ run[i].response.candidates_count = Cardinality(NewRows(i))
      /\ run[i].response.candidates_count = 3 * (IF Len(pool) < 5 THEN Len(pool) ELSE 5)
      /\ run[i].response.scenarios = <<"default", "fast", "near">>

\* a run over a pool of more than 5 has reported 15 candidates
C23_Witness ==
  \E i \in Slots :
    Succeeded(i) /\ Len(pool) > 5 /\ run[i].response.candidates_count = 15

\* candidate a stands before candidate b in the list kept
Ahead(kept, a, b) ==
  \E m, n \in 1..Len(kept) : m < n /\ kept[m] = a /\ kept[n] = b

\* candidates a and b have the same speed score and the same load score
SameSpeedAndLoad(a, b) ==
  /\ a.details_json.speed_score = b.details_json.speed_score
  /\ a.details_json.load_score = b.details_json.load_score

\* a is at distance 0 and b at about 3000 km or more
NearAndFar(a, b) ==
  /\ a.logistics_json.distance_km = RInt(0)
  /\ ~RLt(b.logistics_json.distance_km, RInt(2997))

\* C24: of two substitutes with equal speed and load scores, the one with the
\* strictly higher logistics score stands before the other in every scenario
\* whose logistics weight is positive, whenever the other is listed; with the
\* default rules and weights a substitute at 0 km so stands before one at
\* 3000 km in all three scenarios.
C24_BetterLogisticsRanksAhead ==
  \A i \in Slots :
    (run[i].pc \in {"delete", "insert", "updateStatus"} \/ Succeeded(i)) =>
      \A s \in 1..3 :
        LET kept == Ranked(i, Scenarios(settings)[s].type)
            all == Unranked(i, s)
        IN \A j, k \in 1..Len(all) :
             (/\ SameSpeedAndLoad(all[j], all[k])
              /\ (\E m \in 1..Len(kept) : kept[m] = all[k])
              /\ \/ /\ RLt(all[k].details_json.logistics_score, all[j].details_json.logistics_score)
                     /\ RLt(RInt(0), all[j].details_json.weights.logistics)
                 \/ /\ NearAndFar(all[j], all[k])
                     /\ RulesUsed = DocumentedLogisticsRules
                     /\ all[j].details_json.weights = DocumentedWeights(all[j].scenario_type))
             => Ahead(kept, all[j], all[k])

\* with the seeded settings a run has listed, in all three scenarios, a
\* substitute at 0 km before one at 3000 km that precedes it in the pool and
\* has the same speed and load scores
C24_Witness ==
  \E i \in Slots :
    /\ Succeeded(i)
    /\ settings = SeedSettings
    /\ \A s \in 1..3 :
         LET kept == Ranked(i, Scenarios(settings)[s].type)
             all == Unranked(i, s)
         IN \E j, k \in 1..Len(all) :
              /\ k < j
              /\ SameSpeedAndLoad(all[j], all[k])
              /\ NearAndFar(all[j], all[k])
              /\ RLt(all[k].details_json.logistics_score, all[j].details_json.logistics_score)
              /\ Ahead(kept, all[j], all[k])

\* the keys of the detail breakdown
DetailKeys ==
  {"speed_score", "logistics_score", "load_score", "eta_hours", "travel_cost", "travel_mode",
   "distance_km", "recent_assignments", "weights", "explanation"}

\* C25: every row an invocation has persisted carries a score, the whole
\* detail breakdown and an eta_at that is not null.
C25_RowsComplete ==
  \A i \in Slots :
    \A row \in NewRows(i) \cap cands :
      /\ IsFinite(row.score)
      /\ DetailKeys \subseteq DOMAIN row.details_json
      /\ row.eta_at # "null"

\* the places of the grid, and the branches
GeoPlaces ==
  {Point(lon, lat) : lon \in GeoLons, lat \in GeoLats}
    \cup {RequestRow(id).branches.coords : id \in ReqIds}

C27_UnconditionalUpdate ==
  [][\A i \in Slots :
       (run[i].pc = "updateStatus" /\ run'[i].pc = "done" /\ run'[i].response.kind = "success")
         => status'[run[i].request_id] = "matching"]_vars

\* C28: when two invocations for one request have overlapped and both have
\* reported success, the candidates of the request are the rows of one of
\* them, and no substitute occurs twice in a scenario.
C28_OverlapLeavesOneSet ==
  \A i, j \in Slots :
    (/\ i # j
     /\ Succeeded(i) /\ Succeeded(j)
     /\ run[i].request_id = run[j].request_id
     /\ run[i].overlapped /\ run[j].overlapped) =>
      /\ CandsOf(run[i].request_id) \in {NewRows(i), NewRows(j)}
      /\ NoDuplicates(run[i].request_id)

\* C29: a step of an invocation, or of the page's runMatching, leaves the
\* candidates and the status of every request other than its own, the
\* assignments, the settings and the pool as they were; the answer to OPTIONS
\* leaves every table as it was.
C29_FrameOfARun ==
  [][run' # run =>
       /\ \A id \in ReqIds :
            (\A i \in Slots : run'[i].request_id # id) =>
              /\ {c \in cands' : c.request_id = id} = CandsOf(id)
              /\ status'[id] = status[id]
       /\ assignments' = assignments
       /\ settings' = settings
       /\ pool' = pool
       /\ (\E i \in Slots : run'[i].via = "options") => (cands' = cands /\ status' = status)]_vars

\* a run for r1 has deleted, inserted and updated, and r2 has its rows and status
C29_Witness ==
  \E i \in Slots :
    /\ Succeeded(i)
    /\ run[i].request_id = "r1"
    /\ {"delete", "insert", "update"} \subseteq run[i].log
    /\ status["r1"] = "matching"
    /\ CandsOf("r2") # {}
    /\ \A c \in CandsOf("r2") : c.id[1] < 0

\* C30: an invocation whose insert failed has ended with the error response
\* and made no status update call, so that, invoked directly, it leaves the
\* status as it was; and an invocation that had candidates to insert makes
\* the status update call only after the insert.
C30_UpdateAfterInsert ==
  \A i \in Slots :
    /\ "insertFailed" \in run[i].log =>
         /\ run[i].pc = "done"
         /\ run[i].response = ErrorResponse
         /\ run[i].log \cap {"update", "updateFailed"} = {}
         /\ run[i].via = "direct" => StatusOf(run[i].request_id) = run[i].pre.status
    /\ (run[i].log \cap {"update", "updateFailed"} # {} /\ run[i].allCandidates # <<>>) =>
         "insert" \in run[i].log

\* a direct invocation for an open request has deleted, failed to insert and
\* ended with the error response, the request still open
C30_Witness ==
  \E i \in Slots :
    /\ Failed(i)
    /\ run[i].via = "direct"
    /\ {"delete", "insertFailed"} \subseteq run[i].log
    /\ run[i].pre.status = "open"
    /\ StatusOf(run[i].request_id) = "open"

====
